---- MODULE Spec2Model ----
(***************************************************************************)
(* A model of the AI code reviewer: the CodeReviewerAgent durable object   *)
(* (both revisions the repository holds: src/src/agent.ts and the agent of *)
(* unnamed/part_002), the WebSocketHandler, the CodeReviewService review   *)
(* pipeline and the RateLimiterService.                                    *)
(*                                                                         *)
(* Text is modelled as a sequence of segments [id, len]: the first len     *)
(* characters of the base string id.  slice keeps a prefix, concatenation  *)
(* is \o.  A code sample's regex hits are given by Atoms(id): the literal  *)
(* alternatives of LANGUAGE_PATTERNS that occur in it.  Timestamps are not *)
(* modelled.                                                               *)
(***************************************************************************)
EXTENDS Naturals, Integers, Sequences, FiniteSets, TLC

VARIABLES
    agentRev,   \* which revision of the agent class is deployed
    storage,    \* ctx.storage: the durable keys 'reviews' and 'history'
    heap,       \* the ReviewState objects: 0 is built by the constructor, 1 by loadState of agent.ts
    stateRef,   \* the object this.state refers to (wsHandler.state is always object 0)
    loadPc,     \* position of the constructor's loadState() call
    loadLocal,  \* loadState's local 'reviews' (agent.ts reads the two keys one after the other)
    conn,       \* per socket: "connecting", "open", "closed"
    task,       \* per caller: the handler invocation in progress or last finished
    frames,     \* per caller: what the current/last invocation sent back (the frames of the ws.send calls that returned, or the HTTP response)
    nextId,     \* stands for crypto.randomUUID(): ids handed out so far
    events,     \* number of messages and requests delivered so far
    restarts,   \* number of times the instance was evicted and constructed again
    announced,  \* ids of the reviews this instance has sent in a done frame
    kv,         \* RATE_LIMITER KV: the entry under the one key modelled
    now,        \* Date.now() in milliseconds
    config,     \* the RateLimitConfig the limiter is called with
    calls,      \* the results of the checkLimit calls since the current window was opened; after another operation of the limiter, its result
    ncalls,     \* number of rate limiter calls made so far
    racers,     \* per concurrent checkLimit call: its position and what its store read returned
    routerReq,  \* the request the router's fetch is processing, or its outcome
    served,     \* number of requests the router has taken
    fnArg,      \* the argument a function is called with, where one is checked on its own
    fnResult    \* what that call returned, once it has

agentVars == <<agentRev, storage, heap, stateRef, loadPc, loadLocal, conn, task,
               frames, nextId, events, restarts, announced>>
rlVars == <<kv, now, config, calls, ncalls>>
edgeVars == <<racers, routerReq, served, fnArg, fnResult>>
vars == <<agentRev, storage, heap, stateRef, loadPc, loadLocal, conn, task,
          frames, nextId, events, restarts, announced, kv, now, config, calls, ncalls,
          racers, routerReq, served, fnArg, fnResult>>

----------------------------------------------------------------------------
(* Bounds of the model *)

MaxEvents == 2
MaxRestarts == 1
MaxCalls == 4
MaxNow == 2001
Jitter == 1
MaxPolicyRequests == 3
MaxWindowSeconds == 2
MaxRacers == 3
MaxServed == 2
MaxMentions == 2
MaxTokens == 4
MaxParts == 2

----------------------------------------------------------------------------
(* Text *)

Min(a, b) == IF a < b THEN a ELSE b

Seg(id, len) == [id |-> id, len |-> len]

RECURSIVE TextLen(_)
TextLen(t) == IF t = <<>> THEN 0 ELSE Head(t).len + TextLen(Tail(t))

\* String.prototype.slice(0, n)
RECURSIVE Slice(_, _)
Slice(t, n) ==
    IF t = <<>> \/ n = 0 THEN <<>>
    ELSE IF Head(t).len = 0 THEN Slice(Tail(t), n)
    ELSE IF Head(t).len >= n THEN << Seg(Head(t).id, n) >>
    ELSE << Head(t) >> \o Slice(Tail(t), n - Head(t).len)

\* The value undefined (a missing JSON field), kept apart from the empty string
Undefined == << Seg("<undefined>", 0) >>
EmptyText == <<>>

\* JavaScript truthiness of a string-or-undefined value
Truthy(t) == t # Undefined /\ TextLen(t) > 0

\* text.trim() === ""
IsBlank(t) == \A i \in 1..Len(t) : t[i].len = 0 \/ t[i].id = "<spaces>"

\* A function called on its own: not returned yet, returned with a value
NotCalled == [done |-> FALSE, value |-> 0]

Returned(v) == [done |-> TRUE, value |-> v]

----------------------------------------------------------------------------
(* Code samples: the submitted texts of the model *)

\* "please review my work thanks"          prose
\* "def foo(): pass"                       py_def
\* "def f(self): return None"              py_self
\* "public class A { private String s; }"  java_cls
\* a Python module of 5000 characters      py_long
\* "const f = async () => { await g(); };" js_fn
\* "interface P { name: string; }"         ts_iface
\* "package main", "func main() { x := 1 }"                        go_main
\* "fn main() { let mut v = Vec::new(); }" rs_fn
\* "#include <iostream>", "int main() { std::cout << 1; }"         cpp_main
SampleIds == {"prose", "py_def", "py_self", "java_cls", "py_long",
              "js_fn", "ts_iface", "go_main", "rs_fn", "cpp_main"}

SampleLen(id) ==
    CASE id = "prose"    -> 28
      [] id = "py_def"   -> 15
      [] id = "py_self"  -> 24
      [] id = "java_cls" -> 36
      [] id = "py_long"  -> 5000
      [] id = "js_fn"    -> 37
      [] id = "ts_iface" -> 29
      [] id = "go_main"  -> 35
      [] id = "rs_fn"    -> 37
      [] id = "cpp_main" -> 50
      [] OTHER           -> 0

\* The regex alternatives that occur in a sample; "{}();=[]" stands for any
\* character of the class [{}();=\[\]]
Atoms(id) ==
    CASE id = "py_def"   -> {"def", "{}();=[]"}
      [] id = "py_self"  -> {"def", "self", "None", "{}();=[]"}
      [] id = "java_cls" -> {"public", "class", "private", "String", "{}();=[]"}
      [] id = "py_long"  -> {"def", "self", "None", "{}();=[]"}
      [] id = "js_fn"    -> {"const", "async", "await", "{}();=[]"}
      [] id = "ts_iface" -> {"interface", ":string", "string", "{}();=[]"}
      [] id = "go_main"  -> {"package", "func", ":=", "{}();=[]"}
      [] id = "rs_fn"    -> {"fn", "let", "mut", "Vec", "{}();=[]"}
      [] id = "cpp_main" -> {"#include <w>", "std::w", "cout", "int", "int main(", "{}();=[]"}
      [] OTHER           -> {}

Sample(id) == << Seg(id, SampleLen(id)) >>

\* String.prototype.toLowerCase() on the atoms and language names of the model
Lower(a) ==
    CASE a = "String"  -> "string"
      [] a = "None"    -> "none"
      [] a = "True"    -> "true"
      [] a = "False"   -> "false"
      [] a = "Promise" -> "promise"
      [] a = "Vec"     -> "vec"
      [] a = "Option"  -> "option"
      [] a = "Result"  -> "result"
      [] a = "List"    -> "list"
      [] a = "Python"  -> "python"
      [] a = "Java"    -> "java"
      [] OTHER         -> a

AtomsOf(code) == UNION { Atoms(code[i].id) : i \in 1..Len(code) }

\* What pattern.test(codeNormalized) || pattern.test(code) can hit
AtomsTested(code) == AtomsOf(code) \cup { Lower(a) : a \in AtomsOf(code) }

----------------------------------------------------------------------------
(* Language detection (code-review-service.ts) *)

LANGUAGES == << "javascript", "typescript", "python", "java", "go", "rust", "cpp", "csharp" >>

\* Each regex as the set of its alternatives.  "$.x" is a text ending in .x,
\* "w=>w" an arrow between word characters, "w#include" an #include preceded by
\* a word character (the \b before '#'), "<Generic>" is <[A-Z][^>]*>.
LANGUAGE_PATTERNS(language) ==
    CASE language = "javascript" -> <<
           {"function", "const", "let", "var", "w=>w", "console.log", "require", "import", "export"},
           {"async", "await", "Promise", "setTimeout", "setInterval"},
           {"$.js", "$.jsx", "$.ts", "$.tsx"},
           {"document.", "window.", "localStorage."},
           {"React.", "useState", "useEffect"} >>
      [] language = "typescript" -> <<
           {"interface", "type", "enum", "namespace", "implements", "extends"},
           {":string", ":number", ":boolean", ":any", ":void", ":object"},
           {"$.ts", "$.tsx"},
           {"<Generic>"},
           {"as word"} >>
      [] language = "python" -> <<
           {"def", "class", "import", "from", "if __name__", "print", "len", "range"},
           {"self", "None", "True", "False", "elif", "lambda"},
           {"$.py"},
           {"@word"},
           {"with word:"} >>
      [] language = "java" -> <<
           {"public", "private", "protected", "static", "class", "interface", "extends", "implements"},
           {"String", "int", "boolean", "void", "ArrayList", "HashMap"},
           {"$.java"},
           {"System.out.println"},
           {"new word("} >>
      [] language = "go" -> <<
           {"package", "func", "var", "const", "import", "type", "struct", "interface"},
           {"fmt.Print", "make", "append", "len", "cap"},
           {"$.go"},
           {":="},
           {"go word"} >>
      [] language = "rust" -> <<
           {"fn", "let", "mut", "impl", "struct", "enum", "trait", "use", "mod"},
           {"String", "Vec", "Option", "Result", "unwrap", "expect"},
           {"$.rs"},
           {"println!"},
           {"&str", "&mut"} >>
      [] language = "cpp" -> <<
           {"w#include", "using namespace", "class", "struct", "template", "public", "private"},
           {"std::w", "cout", "cin", "endl", "vector", "string"},
           {"$.cpp", "$.cc", "$.cxx", "$.h", "$.hpp"},
           {"#include <w>"},
           {"int main("} >>
      [] language = "csharp" -> <<
           {"using", "namespace", "class", "struct", "interface", "public", "private", "static"},
           {"string", "int", "bool", "void", "List", "Dictionary", "Console.WriteLine"},
           {"$.cs"},
           {"[..]"},
           {"new word("} >>

\* The number of a language's patterns that match
Matches(code, language) ==
    LET patterns == LANGUAGE_PATTERNS(language)
        tested == AtomsTested(code)
    IN  Cardinality({ i \in 1..Len(patterns) : patterns[i] \cap tested # {} })

\* A language counted as detected only from three matching patterns on
detectLanguage_ThreeMatches(code) ==
    SelectSeq(LANGUAGES, LAMBDA language : Matches(code, language) >= 3)

detectLanguage(code) ==
    SelectSeq(LANGUAGES, LAMBDA language : Matches(code, language) >= 2)

SeqToSet(s) == { s[i] : i \in 1..Len(s) }

\* /[{}();=\[\]]/.test(code) || /\b(if|for|while|function|class)\b/i.test(code)
hasCodeStructure(code) ==
    AtomsTested(code) \cap {"{}();=[]", "if", "for", "while", "function", "class"} # {}

\* code.trim().length: the samples carry no outer white space
TrimLength(code) == IF IsBlank(code) THEN 0 ELSE TextLen(code)

NotCodeMessage == "The provided text doesn't appear to be code. Please provide actual source code for review."
GenericSuggestion == "Could not detect specific language. Proceeding with generic code review."

\* suggestion and errorMessage are "" where the code leaves them undefined;
\* primaryDetected is the language the suggestion names
validateLanguage(code, providedLanguage) ==
    LET detectedLanguages == detectLanguage(code) IN
    IF Len(detectedLanguages) = 0
    THEN IF ~hasCodeStructure(code) /\ TrimLength(code) > 10
         THEN [isValid |-> FALSE, detectedLanguages |-> << >>,
               errorMessage |-> NotCodeMessage, suggestion |-> "", primaryDetected |-> ""]
         ELSE [isValid |-> TRUE, detectedLanguages |-> << >>,
               errorMessage |-> "", suggestion |-> GenericSuggestion, primaryDetected |-> ""]
    ELSE IF Lower(providedLanguage) \notin SeqToSet(detectedLanguages)
         THEN [isValid |-> FALSE, detectedLanguages |-> detectedLanguages,
               errorMessage |-> "Code appears to be ... but you selected ...",
               suggestion |-> "Try selecting ... instead.",
               primaryDetected |-> detectedLanguages[1]]
         ELSE [isValid |-> TRUE, detectedLanguages |-> detectedLanguages,
               errorMessage |-> "", suggestion |-> "", primaryDetected |-> ""]

\* The languages a caller can claim: those with a detector and those the
\* documentation lists without one
UndetectedLanguages == {"php", "ruby", "swift", "kotlin", "other"}

ClaimedLanguages == SeqToSet(LANGUAGES) \cup UndetectedLanguages

\* The codes validateLanguage is called on: up to MaxParts of the samples,
\* each on lines of its own
Codes ==
    UNION { [1..n -> { Seg(id, SampleLen(id)) : id \in SampleIds \ {"py_long"} }] :
              n \in 0..MaxParts }

\* One call of validateLanguage returns
CallValidateLanguage ==
    /\ ~fnResult.done
    /\ fnResult' = Returned(validateLanguage(fnArg.code, fnArg.providedLanguage))
    /\ UNCHANGED <<agentVars, rlVars, racers, routerReq, served, fnArg>>

----------------------------------------------------------------------------
(* The review pipeline (CodeReviewService.performReview) *)

CATEGORIES == {"quick", "security", "performance", "documentation"}

\* SYSTEM_PROMPTS[category] || SYSTEM_PROMPTS.quick, by the name of the template
getSystemPrompt(category) == IF category \in CATEGORIES THEN category ELSE "quick"

\* validCategory of performAIReview
validCategory(category) == IF category \in CATEGORIES THEN category ELSE "quick"

\* language || 'javascript', language || 'code': "<undefined>" is a missing field
OrElse(v, d) == IF v = "<undefined>" \/ v = "" THEN d ELSE v

\* A value inside a template literal
Shown(v) == IF v = "<undefined>" THEN "undefined" ELSE v

\* performReview with the validation result ignored
performReviewRejects_Ignored(code, language) == FALSE

\* The throw of performReview on a failed validation, before ai.run
performReviewRejects(code, language) ==
    ~validateLanguage(code, OrElse(language, "javascript")).isValid

RECURSIVE JoinLen(_)
JoinLen(langs) ==
    IF langs = << >> THEN 0
    ELSE Len(Head(langs)) + (IF Len(langs) > 1 THEN 4 ELSE 0) + JoinLen(Tail(langs))

\* languageNote: what performReview prepends to the model's text
languageNote(validation) ==
    IF validation.suggestion # ""
    THEN << Seg("**Language Detection Note:**", 105) >>
    ELSE IF Len(validation.detectedLanguages) > 1
         THEN << Seg("**Language Detection:**", 45 + JoinLen(validation.detectedLanguages) + 3) >>
         ELSE EmptyText

\* What ai.run can do: reject, resolve to undefined, or resolve to an object
\* whose response field is a text, an empty string or white space
AiResponses ==
    { [kind |-> "throws",    response |-> Undefined],
      [kind |-> "undefined", response |-> Undefined],
      [kind |-> "object",    response |-> EmptyText],
      [kind |-> "object",    response |-> << Seg("<spaces>", 2) >>],
      [kind |-> "object",    response |-> << Seg("Looks fine. **Confidence: 90/100**", 34) >>] }

\* The same, and an object without any field and a text of 1200 characters
SocketAiResponses ==
    AiResponses \cup
    { [kind |-> "object", response |-> Undefined],
      [kind |-> "object", response |-> << Seg("a review of 1200 characters", 1200) >>] }

\* JSON.stringify(response) of the fallback branch: {} or {"response":""}
Stringified(resp) ==
    IF resp.response = Undefined
    THEN << Seg("{}", 2) >>
    ELSE << Seg("{\"response\":\"\"}", 15) >>

\* fullResponse as the branches of performReview fill it; ok is FALSE where
\* the code throws before onChunk is called
Accumulate(resp) ==
    CASE resp.kind = "throws"    -> [ok |-> FALSE, text |-> EmptyText, error |-> "ai.run rejected"]
      [] resp.kind = "undefined" -> [ok |-> FALSE, text |-> EmptyText, error |-> "Unexpected AI response format"]
      [] OTHER ->
           IF Truthy(resp.response)
           THEN [ok |-> TRUE, text |-> resp.response, error |-> ""]
           ELSE [ok |-> TRUE, text |-> Stringified(resp), error |-> ""]

\* performReview from the return of ai.run on: sendThrows says whether the
\* onChunk callback throws.  chunk tells whether onChunk was called.
performReview(code, language, resp, sendThrows) ==
    LET validation == validateLanguage(code, OrElse(language, "javascript"))
        acc == Accumulate(resp)
    IN  IF ~acc.ok
        THEN [ok |-> FALSE, chunk |-> FALSE, result |-> EmptyText,
              error |-> "AI review failed: " \o acc.error]
        ELSE IF sendThrows
        THEN [ok |-> FALSE, chunk |-> TRUE, result |-> EmptyText,
              error |-> "AI review failed: send"]
        ELSE IF IsBlank(acc.text)
        THEN [ok |-> FALSE, chunk |-> TRUE, result |-> EmptyText,
              error |-> "AI review failed: AI returned empty response"]
        ELSE [ok |-> TRUE, chunk |-> TRUE, result |-> languageNote(validation) \o acc.text,
              error |-> ""]

----------------------------------------------------------------------------
(* Session state, callers and inputs *)

Revisions == {"agent.ts", "part_002"}
Conns == {"c1", "c2"}
Http == "http"
Callers == Conns \cup {Http}

EmptyState == [reviews |-> << >>, history |-> << >>]

\* Array.prototype.unshift in the place of push
Push_Unshift(list, entry) == << entry >> \o list

\* Array.prototype.push
Push(list, entry) == Append(list, entry)

\* The full code kept
Review_Untruncated(id, code, category, language, result) ==
    [id |-> id, code |-> code, category |-> category,
     language |-> language, result |-> result]

Review(id, code, category, language, result) ==
    [id |-> id, code |-> Slice(code, 2000), category |-> category,
     language |-> language, result |-> result]

\* The user turn both handlers push
UserTurn(code, category, language) ==
    [role |-> "user",
     content |-> << Seg("Review this " \o Shown(language) \o " (" \o Shown(category) \o " analysis):\n",
                        12 + Len(Shown(language)) + 2 + Len(Shown(category)) + 12) >>
                 \o Slice(code, 500) \o << Seg("...", 3) >>]

\* The whole response kept
AssistantTurn_Untruncated(fullResponse) ==
    [role |-> "assistant", content |-> fullResponse]

AssistantTurn(fullResponse) ==
    [role |-> "assistant", content |-> Slice(fullResponse, 500)]

\* What a previous instance of the session left in durable storage
PriorReview ==
    Review(0, Sample("py_self"), "quick", "python",
           << Seg("Looks fine. **Confidence: 90/100**", 34) >>)
PriorState ==
    [reviews |-> << PriorReview >>,
     history |-> << UserTurn(Sample("py_self"), "quick", "python"),
                    AssistantTurn(PriorReview.result) >>]
InitialStorages == {EmptyState, PriorState}

Msg(type, code, category, language) ==
    [type |-> type, code |-> code, category |-> category, language |-> language]

\* The submissions of the model: missing code, empty code, prose, a language
\* mismatch, a match of 5000 characters
Submissions ==
    { <<Undefined, "quick", "javascript">>,
      <<EmptyText, "quick", "javascript">>,
      <<Sample("prose"), "quick", "javascript">>,
      <<Sample("py_self"), "quick", "javascript">>,
      <<Sample("py_long"), "security", "python">> }

WsMessages ==
    { Msg("submit_code", s[1], s[2], s[3]) : s \in Submissions }
    \cup { Msg(t, Undefined, "<undefined>", "<undefined>") :
             t \in {"ping", "list_reviews", "get_history", "other", "not json"} }

HttpRequests ==
    { Msg("POST /api/review", s[1], s[2], s[3]) : s \in Submissions }
    \cup { Msg(t, Undefined, "<undefined>", "<undefined>") :
             t \in {"GET /reviews", "GET /history", "GET /status", "GET /other"} }

\* The submissions one socket sends in turn: those above, a single def, a Java
\* class, and Python code with a category outside the enum or with none
SocketSubmissions ==
    Submissions \cup
    { <<Sample("py_def"), "quick", "javascript">>,
      <<Sample("java_cls"), "quick", "java">>,
      <<Sample("py_self"), "style", "python">>,
      <<Sample("py_self"), "<undefined>", "python">> }

SocketMessages ==
    { Msg("submit_code", s[1], s[2], s[3]) : s \in SocketSubmissions }
    \cup { Msg(t, Undefined, "<undefined>", "<undefined>") :
             t \in {"list_reviews", "get_history"} }

NoMsg == Msg("none", Undefined, "<undefined>", "<undefined>")

IdleTask ==
    [pc |-> "idle", msg |-> NoMsg, pre |-> EmptyState, invoked |-> FALSE,
     outcome |-> "none", reviewId |-> 0, modelText |-> FALSE, template |-> "none"]

Frame(type) ==
    [type |-> type, status |-> 0, reviews |-> << >>, history |-> << >>,
     reviewsCount |-> 0, messagesCount |-> 0]

HttpResponse(status) == [Frame("http") EXCEPT !.status = status]

----------------------------------------------------------------------------
(* The agent: construction, hydration, persistence *)

thisState == heap[stateRef]     \* this.state of the agent
wsState == heap[0]              \* this.state of the WebSocketHandler

\* The constructor has run: loadState() is suspended at its first await
ConstructedPc(rev) == IF rev = "agent.ts" THEN "get_reviews" ELSE "get_all"

\* await this.stateReady, which only part_002 has
stateReady == agentRev = "part_002" => loadPc = "done"

\* A handler is between the two puts of saveState (the pending storage
\* operation keeps the object's input gate closed) or its reply is on its way
\* to the caller: no other event is delivered until it has settled
Settling == \E h \in Callers : task[h].pc \in {"put_history", "respond"}

InitAgent ==
    /\ storage \in InitialStorages
    /\ heap = [o \in 0..1 |-> EmptyState]
    /\ stateRef = 0
    /\ loadPc = ConstructedPc(agentRev)
    /\ loadLocal = << >>
    /\ conn = [c \in Conns |-> "connecting"]
    /\ task = [h \in Callers |-> IdleTask]
    /\ frames = [h \in Callers |-> << >>]
    /\ nextId = 1
    /\ events = 0
    /\ restarts = 0
    /\ announced = {}

\* agent.ts loadState: const reviews = await this.ctx.storage.get('reviews') || []
LoadReviews ==
    /\ agentRev = "agent.ts" /\ loadPc = "get_reviews"
    /\ loadLocal' = storage.reviews
    /\ loadPc' = "get_history"
    /\ UNCHANGED <<agentRev, storage, heap, stateRef, conn, task, frames, nextId,
                   events, restarts, announced, rlVars, edgeVars>>

\* agent.ts loadState: the second read, then this.state = { reviews, history }
LoadHistory ==
    /\ agentRev = "agent.ts" /\ loadPc = "get_history"
    /\ heap' = [heap EXCEPT ![1] = [reviews |-> loadLocal, history |-> storage.history]]
    /\ stateRef' = 1
    /\ loadPc' = "done"
    /\ UNCHANGED <<agentRev, storage, loadLocal, conn, task, frames, nextId,
                   events, restarts, announced, rlVars, edgeVars>>

\* part_002 loadState: both reads at once, assigned to the fields of this.state
LoadAll ==
    /\ agentRev = "part_002" /\ loadPc = "get_all"
    /\ heap' = [heap EXCEPT ![0] = [reviews |-> storage.reviews, history |-> storage.history]]
    /\ loadPc' = "done"
    /\ UNCHANGED <<agentRev, storage, stateRef, loadLocal, conn, task, frames, nextId,
                   events, restarts, announced, rlVars, edgeVars>>

\* A storage read rejects: part_002 catches it and falls back to empty lists,
\* in agent.ts the promise of loadState rejects and this.state stays as it is
LoadFails ==
    /\ loadPc \in {"get_reviews", "get_history", "get_all"}
    /\ IF agentRev = "part_002"
       THEN /\ heap' = [heap EXCEPT ![0] = EmptyState]
            /\ loadPc' = "done"
       ELSE /\ heap' = heap
            /\ loadPc' = "failed"
    /\ UNCHANGED <<agentRev, storage, stateRef, loadLocal, conn, task, frames, nextId,
                   events, restarts, announced, rlVars, edgeVars>>

\* saveState up to its first await: put('reviews', this.state.reviews)
PutReviews(st) == [storage EXCEPT !.reviews = st.reviews]

\* saveState after its first await: put('history', this.state.history); the
\* handler then returns (POST /api/review answers 200 with the review)
PutHistory(h) ==
    /\ task[h].pc = "put_history"
    /\ storage' = [storage EXCEPT !.history = thisState.history]
    /\ task' = [task EXCEPT ![h].pc = "respond"]
    /\ frames' = IF h = Http
                 THEN [frames EXCEPT ![h] = << [HttpResponse(200) EXCEPT
                          !.reviews = SelectSeq(thisState.reviews,
                                                LAMBDA r : r.id = task[h].reviewId)] >>]
                 ELSE frames
    /\ UNCHANGED <<agentRev, heap, stateRef, loadPc, loadLocal, conn, nextId,
                   events, restarts, announced, rlVars, edgeVars>>

\* The handler has returned and the caller has its reply: the invocation is over
Respond(h) ==
    /\ task[h].pc = "respond"
    /\ task' = [task EXCEPT ![h] = IdleTask]
    /\ frames' = [frames EXCEPT ![h] = << >>]
    /\ UNCHANGED <<agentRev, storage, heap, stateRef, loadPc, loadLocal, conn, nextId,
                   events, restarts, announced, rlVars, edgeVars>>

\* The platform evicts the instance and constructs it again: memory is lost,
\* handlers in progress are dropped, accepted sockets survive
Restart ==
    /\ restarts < MaxRestarts
    /\ restarts' = restarts + 1
    /\ heap' = [o \in 0..1 |-> EmptyState]
    /\ stateRef' = 0
    /\ loadPc' = ConstructedPc(agentRev)
    /\ loadLocal' = << >>
    /\ task' = [h \in Callers |-> IdleTask]
    /\ frames' = [h \in Callers |-> << >>]
    /\ announced' = {}
    /\ UNCHANGED <<agentRev, storage, conn, nextId, events, rlVars, edgeVars>>

\* fetch with Upgrade: websocket -> handleWebSocketUpgrade -> acceptWebSocket
WebSocketUpgrade(c) ==
    /\ conn[c] = "connecting"
    /\ stateReady
    /\ ~Settling
    /\ conn' = [conn EXCEPT ![c] = "open"]
    /\ UNCHANGED <<agentRev, storage, heap, stateRef, loadPc, loadLocal, task, frames,
                   nextId, events, restarts, announced, rlVars, edgeVars>>

\* The client goes away while its review is in progress
SocketClose(c) ==
    /\ conn[c] = "open"
    /\ task[c].pc = "ai"
    /\ ~Settling
    /\ conn' = [conn EXCEPT ![c] = "closed"]
    /\ UNCHANGED <<agentRev, storage, heap, stateRef, loadPc, loadLocal, task, frames,
                   nextId, events, restarts, announced, rlVars, edgeVars>>

----------------------------------------------------------------------------
(* The socket path: webSocketMessage -> handleMessage -> handleCodeReview *)

\* The default branch answering like the ping branch
ReplyFrame_DefaultPong(type, st) ==
    CASE type = "list_reviews" -> [Frame("reviews") EXCEPT !.reviews = st.reviews]
      [] type = "get_history"  -> [Frame("history") EXCEPT !.history = st.history]
      [] OTHER                 -> Frame("pong")

ReplyFrame(type, st) ==
    CASE type = "ping"         -> Frame("pong")
      [] type = "list_reviews" -> [Frame("reviews") EXCEPT !.reviews = st.reviews]
      [] type = "get_history"  -> [Frame("history") EXCEPT !.history = st.history]
      [] OTHER                 -> Frame("error")

\* Whether the response of ai.run carries a text that is not blank
ModelReturnedText(resp) ==
    resp.kind = "object" /\ Truthy(resp.response) /\ ~IsBlank(resp.response)

\* A message arrives on an open socket.  The step runs to the first await that
\* waits for the outside: the ai.run of a submission that passed validation,
\* or else the first put of saveState.
\*   - code undefined: code.slice throws while the user turn is being built,
\*     handleMessage catches it and sends an error frame;
\*   - otherwise the user turn is pushed and the init frame sent before
\*     performReview validates the language.
WsMessage(c, m) ==
    /\ conn[c] = "open"
    /\ task[c].pc = "idle"
    /\ events < MaxEvents
    /\ stateReady
    /\ ~Settling
    /\ events' = events + 1
    /\ LET started == [IdleTask EXCEPT !.msg = m, !.pre = wsState]
           pushed == [heap EXCEPT ![0].history =
                        Push(@, UserTurn(m.code, m.category, OrElse(m.language, "code")))]
       IN  IF m.type # "submit_code"
           THEN /\ heap' = heap
                /\ frames' = [frames EXCEPT ![c] = << ReplyFrame(m.type, wsState) >>]
                /\ task' = [task EXCEPT ![c] =
                              [started EXCEPT !.pc = "put_history", !.outcome = "replied"]]
                /\ storage' = PutReviews(thisState)
           ELSE IF m.code = Undefined
           THEN /\ heap' = heap
                /\ frames' = [frames EXCEPT ![c] = << Frame("error") >>]
                /\ task' = [task EXCEPT ![c] =
                              [started EXCEPT !.pc = "put_history", !.outcome = "type_error"]]
                /\ storage' = PutReviews(thisState)
           ELSE IF performReviewRejects(m.code, m.language)
           THEN /\ heap' = pushed
                /\ frames' = [frames EXCEPT ![c] = << Frame("stream"), Frame("error") >>]
                /\ task' = [task EXCEPT ![c] =
                              [started EXCEPT !.pc = "put_history", !.outcome = "rejected"]]
                /\ storage' = PutReviews(heap'[stateRef])
           ELSE /\ heap' = pushed
                /\ frames' = [frames EXCEPT ![c] = << Frame("stream") >>]
                /\ task' = [task EXCEPT ![c] =
                              [started EXCEPT !.pc = "ai", !.invoked = TRUE,
                                              !.template = getSystemPrompt(m.category)]]
                /\ storage' = storage
    /\ UNCHANGED <<agentRev, stateRef, loadPc, loadLocal, conn, nextId, restarts,
                   announced, rlVars, edgeVars>>

\* ai.run settles for a socket submission: the rest of performReview and of
\* handleCodeReview, then saveState up to its first await.  On a closed socket
\* ws.send either returns, the frame being dropped, or throws (sendThrows).  A ws.send that
\* throws inside onChunk is caught by performReview; the error frame that
\* handleCodeReview and then handleMessage try to send throws again, so
\* webSocketMessage rejects before saveState.
AiReturnWs(c, resp, sendThrows) ==
    /\ c \in Conns
    /\ task[c].pc = "ai"
    /\ ~Settling
    /\ sendThrows => conn[c] = "closed"
    /\ LET m == task[c].msg
           shown == conn[c] = "open"
           r == performReview(m.code, m.language, resp, sendThrows)
           chunk == IF r.chunk THEN << Frame("stream") >> ELSE << >>
           review == Review(nextId, m.code, m.category, "<absent>", r.result)
           returned == [task[c] EXCEPT !.modelText = ModelReturnedText(resp)]
       IN  IF r.ok
           THEN /\ heap' = [heap EXCEPT ![0].reviews = Push(@, review),
                                        ![0].history = Push(@, AssistantTurn(r.result))]
                /\ nextId' = nextId + 1
                /\ frames' = [frames EXCEPT ![c] = @ \o chunk \o
                                << [Frame("done") EXCEPT !.reviews = << review >>] >>]
                /\ announced' = IF shown THEN announced \cup {nextId} ELSE announced
                /\ task' = [task EXCEPT ![c] =
                              [returned EXCEPT !.pc = "put_history", !.outcome = "done",
                                               !.reviewId = nextId]]
                /\ storage' = PutReviews(heap'[stateRef])
           ELSE IF sendThrows
           THEN /\ task' = [task EXCEPT ![c] =
                              [returned EXCEPT !.pc = "respond", !.outcome = "send_failed"]]
                /\ UNCHANGED <<heap, nextId, frames, announced, storage>>
           ELSE /\ frames' = [frames EXCEPT ![c] = @ \o chunk \o
                                << Frame("error") >>]
                /\ task' = [task EXCEPT ![c] =
                              [returned EXCEPT !.pc = "put_history", !.outcome = "model_failed"]]
                /\ storage' = PutReviews(thisState)
                /\ UNCHANGED <<heap, nextId, announced>>
    /\ UNCHANGED <<agentRev, stateRef, loadPc, loadLocal, conn, events, restarts, rlVars, edgeVars>>

----------------------------------------------------------------------------
(* The HTTP path: fetch -> handleHTTPRequest *)

\* A destructuring default: only undefined takes it
Default(v, d) == IF v = "<undefined>" THEN d ELSE v

\* The handler's own validation of POST /api/review, before performAIReview
httpRejects(code, language) == ~validateLanguage(code, language).isValid

\* An HTTP request reaches the agent.  agent.ts serves /reviews, /history and
\* /status only; part_002 adds POST /api/review, which runs up to ai.run.
HttpRequest(req) ==
    /\ task[Http].pc = "idle"
    /\ events < MaxEvents
    /\ stateReady
    /\ ~Settling
    /\ events' = events + 1
    /\ LET started == [IdleTask EXCEPT !.msg = req, !.pre = thisState]
           category == Default(req.category, "quick")
           language == Default(req.language, "javascript")
           answer(f, outcome) ==
               /\ frames' = [frames EXCEPT ![Http] = << f >>]
               /\ task' = [task EXCEPT ![Http] =
                             [started EXCEPT !.pc = "respond", !.outcome = outcome]]
               /\ UNCHANGED <<heap, nextId>>
       IN  CASE req.type = "GET /reviews" ->
                  answer([HttpResponse(200) EXCEPT !.reviews = thisState.reviews], "replied")
             [] req.type = "GET /history" ->
                  answer([HttpResponse(200) EXCEPT !.history = thisState.history], "replied")
             [] req.type = "GET /status" ->
                  answer([HttpResponse(200) EXCEPT
                            !.reviewsCount = Len(thisState.reviews),
                            !.messagesCount = Len(thisState.history)], "replied")
             [] req.type = "POST /api/review" /\ agentRev = "part_002" ->
                  IF ~Truthy(req.code)
                  THEN answer(HttpResponse(400), "code_required")
                  ELSE IF httpRejects(req.code, language)
                  THEN answer(HttpResponse(400), "rejected")
                  ELSE /\ heap' = [heap EXCEPT ![stateRef].history =
                                     Push(@, UserTurn(req.code, category, language))]
                       /\ nextId' = nextId + 1
                       /\ IF performReviewRejects(req.code, language)
                          THEN /\ frames' = [frames EXCEPT ![Http] = << HttpResponse(500) >>]
                               /\ task' = [task EXCEPT ![Http] =
                                             [started EXCEPT !.pc = "respond",
                                                             !.outcome = "rejected"]]
                          ELSE /\ frames' = [frames EXCEPT ![Http] = << >>]
                               /\ task' = [task EXCEPT ![Http] =
                                             [started EXCEPT !.pc = "ai", !.invoked = TRUE,
                                                             !.reviewId = nextId,
                                                             !.template = getSystemPrompt(validCategory(category))]]
             [] OTHER -> answer(HttpResponse(404), "not_found")
    /\ UNCHANGED <<agentRev, storage, stateRef, loadPc, loadLocal, conn, restarts,
                   announced, rlVars, edgeVars>>

\* ai.run settles for POST /api/review: performAIReview returns or throws.
\* On success the review and the assistant turn are pushed and saveState
\* starts; on failure the handler answers 500.
AiReturnHttp(resp) ==
    /\ task[Http].pc = "ai"
    /\ ~Settling
    /\ LET req == task[Http].msg
           category == Default(req.category, "quick")
           language == Default(req.language, "javascript")
           r == performReview(req.code, language, resp, FALSE)
           review == Review(task[Http].reviewId, req.code, category, language, r.result)
           returned == [task[Http] EXCEPT !.modelText = ModelReturnedText(resp)]
       IN  IF r.ok
           THEN /\ heap' = [heap EXCEPT ![stateRef].reviews = Push(@, review),
                                        ![stateRef].history = Push(@, AssistantTurn(r.result))]
                /\ task' = [task EXCEPT ![Http] =
                              [returned EXCEPT !.pc = "put_history", !.outcome = "done"]]
                /\ storage' = PutReviews(heap'[stateRef])
                /\ frames' = frames
           ELSE /\ frames' = [frames EXCEPT ![Http] = << HttpResponse(500) >>]
                /\ task' = [task EXCEPT ![Http] =
                              [returned EXCEPT !.pc = "respond", !.outcome = "model_failed"]]
                /\ UNCHANGED <<heap, storage>>
    /\ UNCHANGED <<agentRev, stateRef, loadPc, loadLocal, conn, nextId, events, restarts,
                   announced, rlVars, edgeVars>>
----------------------------------------------------------------------------
(* The rate limiter (worker/lib/rate-limiter.ts), on one key *)

NoEntry == [present |-> FALSE, count |-> 0, windowStart |-> 0, windowEnd |-> 0]

\* The instants Date.now() takes in the model: around every full second
ClockValues == { t \in 0..MaxNow : t % 1000 <= Jitter }

Configs ==
    [maxRequests : 1..MaxPolicyRequests, windowSizeSeconds : 1..MaxWindowSeconds]

\* Math.ceil(ms / 1000) for ms >= 0
CeilSeconds(ms) == (ms + 999) \div 1000

\* Only a missing entry opens a window
windowExpired_MissingOnly(entry, t) == ~entry.present

\* !entry || now > entry.windowEnd
windowExpired(entry, t) == ~entry.present \/ t > entry.windowEnd

\* The comparison off by one
limitExceeded_OffByOne(entry, configObj) == entry.count > configObj.maxRequests

\* entry.count >= configObj.maxRequests
limitExceeded(entry, configObj) == entry.count >= configObj.maxRequests

\* A RateLimitResult; retryAfter is -1 where the code leaves it undefined.
\* at, found, fresh and error record the call: its Date.now(), the entry the
\* store held when it was made, whether it opened a window, whether the store
\* failed.
Result(allowed, remaining, resetAt, retryAfter, fresh, error) ==
    [allowed |-> allowed, remaining |-> remaining, resetAt |-> resetAt,
     retryAfter |-> retryAfter, at |-> now, found |-> kv, fresh |-> fresh,
     error |-> error, op |-> "checkLimit"]

\* The catch branch denying instead
failOpen_Closed(configObj) ==
    Result(FALSE, 0, now + configObj.windowSizeSeconds * 1000, -1, FALSE, TRUE)

\* The catch branch: fail open
failOpen(configObj) ==
    Result(TRUE, configObj.maxRequests, now + configObj.windowSizeSeconds * 1000, -1, FALSE, TRUE)

InitRateLimit ==
    /\ kv = NoEntry
    /\ now = 0
    /\ calls = << >>
    /\ ncalls = 0

\* Time passes
Tick ==
    /\ now' \in { t \in ClockValues : t > now }
    /\ UNCHANGED <<agentVars, edgeVars, kv, config, calls, ncalls>>

\* One checkLimit call; fail says which store operation rejects, if any
checkLimit(fail) ==
    /\ ncalls < MaxCalls
    /\ ncalls' = ncalls + 1
    /\ LET windowSizeMs == config.windowSizeSeconds * 1000
           newEntry == [present |-> TRUE, count |-> 1, windowStart |-> now,
                        windowEnd |-> now + windowSizeMs]
           returns(res) == calls' = IF res.fresh THEN << res >> ELSE Append(calls, res)
       IN  IF fail = "get"
           THEN kv' = kv /\ returns(failOpen(config))
           ELSE IF windowExpired(kv, now)
           THEN IF fail = "put"
                THEN kv' = kv /\ returns(failOpen(config))
                ELSE /\ kv' = newEntry
                     /\ returns(Result(TRUE, config.maxRequests - 1, newEntry.windowEnd,
                                       -1, TRUE, FALSE))
           ELSE IF limitExceeded(kv, config)
           THEN /\ fail = "none"
                /\ kv' = kv
                /\ returns(Result(FALSE, 0, kv.windowEnd,
                                  CeilSeconds(kv.windowEnd - now), FALSE, FALSE))
           ELSE IF fail = "put"
                THEN kv' = kv /\ returns(failOpen(config))
                ELSE /\ kv' = [kv EXCEPT !.count = @ + 1]
                     /\ returns(Result(TRUE, config.maxRequests - (kv.count + 1),
                                       kv.windowEnd, -1, FALSE, FALSE))
    /\ UNCHANGED <<agentVars, edgeVars, now, config>>

\* The result of one of the other operations
ResultOf(op, res) == [res EXCEPT !.op = op]

\* The bucket overflowing only past one more than the limit
tokensExceed_OffByOne(count, tokens, configObj) == count + tokens > configObj.maxRequests + 1

\* newCount > configObj.maxRequests, tokens > configObj.maxRequests
tokensExceed(count, tokens, configObj) == count + tokens > configObj.maxRequests

\* One consumeTokens call; fail says which store operation rejects, if any
consumeTokens(tokens, fail) ==
    /\ ncalls < MaxCalls
    /\ ncalls' = ncalls + 1
    /\ LET windowSizeMs == config.windowSizeSeconds * 1000
           newEntry == [present |-> TRUE, count |-> tokens, windowStart |-> now,
                        windowEnd |-> now + windowSizeMs]
           returns(res) == calls' = << ResultOf("consumeTokens", res) >>
       IN  IF fail = "get"
           THEN kv' = kv /\ returns(failOpen(config))
           ELSE IF windowExpired(kv, now)
           THEN IF tokensExceed(0, tokens, config)
                THEN /\ fail = "none"
                     /\ kv' = kv
                     /\ returns(Result(FALSE, config.maxRequests, now + windowSizeMs,
                                       0, FALSE, FALSE))
                ELSE IF fail = "put"
                THEN kv' = kv /\ returns(failOpen(config))
                ELSE /\ kv' = newEntry
                     /\ returns(Result(TRUE, config.maxRequests - tokens, newEntry.windowEnd,
                                       -1, TRUE, FALSE))
           ELSE IF tokensExceed(kv.count, tokens, config)
           THEN /\ fail = "none"
                /\ kv' = kv
                /\ returns(Result(FALSE, config.maxRequests - kv.count, kv.windowEnd,
                                  CeilSeconds(kv.windowEnd - now), FALSE, FALSE))
           ELSE IF fail = "put"
                THEN kv' = kv /\ returns(failOpen(config))
                ELSE /\ kv' = [kv EXCEPT !.count = @ + tokens]
                     /\ returns(Result(TRUE, config.maxRequests - (kv.count + tokens),
                                       kv.windowEnd, -1, FALSE, FALSE))
    /\ UNCHANGED <<agentVars, edgeVars, now, config>>

\* Math.max(0, n)
AtLeastZero(n) == IF n < 0 THEN 0 ELSE n

\* One getStatus call: a read of the entry, or of nothing when kv.get rejects
getStatus(fail) ==
    /\ ncalls < MaxCalls
    /\ ncalls' = ncalls + 1
    /\ LET windowSizeMs == config.windowSizeSeconds * 1000
           res == IF fail = "get"
                  THEN failOpen(config)
                  ELSE IF windowExpired(kv, now)
                  THEN Result(TRUE, config.maxRequests, now + windowSizeMs, -1, FALSE, FALSE)
                  ELSE Result(kv.count < config.maxRequests,
                              AtLeastZero(config.maxRequests - kv.count),
                              kv.windowEnd, -1, FALSE, FALSE)
       IN  calls' = << ResultOf("getStatus", res) >>
    /\ kv' = kv
    /\ UNCHANGED <<agentVars, edgeVars, now, config>>

\* One reset call: kv.delete(key), which removes the entry or rejects
reset(fail) ==
    /\ ncalls < MaxCalls
    /\ ncalls' = ncalls + 1
    /\ kv' = IF fail = "delete" THEN kv ELSE NoEntry
    /\ calls' = IF fail = "delete" THEN calls ELSE << >>
    /\ UNCHANGED <<agentVars, edgeVars, now, config>>

----------------------------------------------------------------------------
(* Concurrent checkLimit calls on one key *)

Racers == 1..MaxRacers

IdleRacer == [pc |-> "idle", entry |-> NoEntry, allowed |-> FALSE]

\* checkLimit up to the return of kv.get: the call holds the entry it read
RaceGet(p) ==
    /\ racers[p].pc = "idle"
    /\ racers' = [racers EXCEPT ![p] = [pc |-> "read", entry |-> kv, allowed |-> FALSE]]
    /\ UNCHANGED <<agentVars, rlVars, routerReq, served, fnArg, fnResult>>

\* checkLimit from the return of kv.get on: the decision on the entry read,
\* and the kv.put of the new or incremented entry
RacePut(p) ==
    /\ racers[p].pc = "read"
    /\ LET entry == racers[p].entry
           finish(allowed) ==
               racers' = [racers EXCEPT ![p] = [pc |-> "done", entry |-> entry,
                                                allowed |-> allowed]]
       IN  IF windowExpired(entry, now)
           THEN /\ kv' = [present |-> TRUE, count |-> 1, windowStart |-> now,
                          windowEnd |-> now + config.windowSizeSeconds * 1000]
                /\ finish(TRUE)
           ELSE IF limitExceeded(entry, config)
           THEN kv' = kv /\ finish(FALSE)
           ELSE /\ kv' = [entry EXCEPT !.count = @ + 1]
                /\ finish(TRUE)
    /\ UNCHANGED <<agentVars, now, config, calls, ncalls, routerReq, served, fnArg, fnResult>>

----------------------------------------------------------------------------
(* The router: fetch of the worker (unnamed/part_002) *)

Methods == {"GET", "POST", "OPTIONS"}

Paths == {"/", "/health", "/api", "/agent", "/api/review", "/api/analytics",
          "/api/slack/events", "/nowhere"}

getCorsHeaders ==
    {"Access-Control-Allow-Origin", "Access-Control-Allow-Methods",
     "Access-Control-Allow-Headers", "X-Content-Type-Options", "X-Frame-Options",
     "X-XSS-Protection", "Referrer-Policy"}

\* Only the health check skips the rate limit
rateLimitExempt_HealthOnly(pathname) == pathname = "/health"

\* ['/', '/health', '/api'].includes(url.pathname)
rateLimitExempt(pathname) == pathname \in {"/", "/health", "/api"}

\* The route a request takes, in the order fetch tests them
Route(method, pathname) ==
    CASE pathname = "/agent"                               -> "handleAgentRequest"
      [] pathname \in {"/", "/health"}                     -> "handleHealthCheck"
      [] pathname = "/api/review" /\ method = "POST"       -> "handleCodeReview"
      [] pathname = "/api/analytics" /\ method = "GET"     -> "handleAnalytics"
      [] pathname = "/api/slack/events" /\ method = "POST" -> "handleSlackEvent"
      [] pathname = "/api" /\ method = "GET"               -> "handleApiDocs"
      [] OTHER                                             -> "notFound"

Response(status, headers) == [status |-> status, headers |-> headers, webSocket |-> FALSE]

NoResponse == Response(0, {})

\* What this.checkRateLimit(request, env) can do.  The router object of
\* part_002 holds no member of that name: the outcomes are those of the
\* rate-limit check the specification describes, or an exception.
checkRateLimitOutcomes == {"allowed", "denied", "throws"}

\* What the handler of a route does: it returns its response, its own catch
\* branch answers, the agent answers with a WebSocket upgrade, or it throws
HandlerOutcomes == {"returns", "fails", "upgrade", "throws"}

\* The result of a route handler: a response, or thrown
Handle(handler, outcome) ==
    LET json == getCorsHeaders \cup {"Content-Type"}
        thrown == [thrown |-> TRUE, response |-> NoResponse]
        returned(r) == [thrown |-> FALSE, response |-> r]
    IN  CASE handler = "handleAgentRequest" ->
               IF outcome = "throws" THEN thrown
               ELSE IF outcome = "upgrade"
               THEN returned([status |-> 101, headers |-> {}, webSocket |-> TRUE])
               ELSE returned(Response(IF outcome = "fails" THEN 404 ELSE 200, json))
          [] handler = "handleHealthCheck" -> returned(Response(200, json))
          [] handler = "handleApiDocs"     -> returned(Response(200, json))
          [] handler = "handleCodeReview"  ->
               returned(Response(IF outcome \in {"fails", "throws"} THEN 500 ELSE 200, json))
          [] handler = "handleSlackEvent"  ->
               IF outcome \in {"fails", "throws"}
               THEN returned(Response(500, getCorsHeaders))
               ELSE returned(Response(200, {"Content-Type"}))
          [] handler = "handleAnalytics"   -> thrown
          [] OTHER                         -> returned(Response(404, getCorsHeaders))

Request(pc, method, pathname) ==
    [pc |-> pc, method |-> method, pathname |-> pathname, checkResult |-> "none",
     handler |-> "none", response |-> NoResponse]

NoRequest == Request("idle", "GET", "/")

\* fetch up to its first await: the preflight answer, or on to the rate-limit
\* check, or straight to the routes for the exempt paths
RouterFetch(method, pathname) ==
    /\ routerReq.pc \in {"idle", "done", "escaped"}
    /\ served < MaxServed
    /\ served' = served + 1
    /\ routerReq' =
         IF method = "OPTIONS"
         THEN [Request("done", method, pathname) EXCEPT !.response = Response(200, getCorsHeaders)]
         ELSE IF rateLimitExempt(pathname)
         THEN Request("route", method, pathname)
         ELSE Request("check", method, pathname)
    /\ UNCHANGED <<agentVars, rlVars, racers, fnArg, fnResult>>

\* await this.checkRateLimit(request, env), outside the try block of fetch
CheckRateLimitReturns(outcome) ==
    /\ routerReq.pc = "check"
    /\ routerReq' =
         CASE outcome = "allowed" -> [routerReq EXCEPT !.pc = "route", !.checkResult = outcome]
           [] outcome = "denied"  ->
                [routerReq EXCEPT !.pc = "done", !.checkResult = outcome,
                   !.response = Response(429, {"Content-Type", "Retry-After",
                                               "X-RateLimit-Remaining", "X-RateLimit-Reset"}
                                              \cup getCorsHeaders)]
           [] OTHER               -> [routerReq EXCEPT !.pc = "escaped", !.checkResult = outcome]
    /\ UNCHANGED <<agentVars, rlVars, racers, served, fnArg, fnResult>>

\* The try block of fetch: the route's handler runs; what it throws is
\* answered by the catch branch with status 500
RouteRequest(outcome) ==
    /\ routerReq.pc = "route"
    /\ LET handler == Route(routerReq.method, routerReq.pathname)
           result == Handle(handler, outcome)
       IN  routerReq' =
             [routerReq EXCEPT !.pc = "done", !.handler = handler,
                !.response = IF result.thrown
                             THEN Response(500, {"Content-Type"} \cup getCorsHeaders)
                             ELSE result.response]
    /\ UNCHANGED <<agentVars, rlVars, racers, served, fnArg, fnResult>>

InitEdge ==
    /\ racers = [p \in Racers |-> IdleRacer]
    /\ routerReq = NoRequest
    /\ served = 0

\* No function is called on its own
InitFn ==
    /\ fnArg = << >>
    /\ fnResult = NotCalled

----------------------------------------------------------------------------
(* extractConfidence (worker/lib/database-service.ts) *)

\* A model output is its mentions of a score, in the order they stand in the
\* text and with other words between them, and what the default looks at
ScoreForms ==
    {"**Confidence: N/100**", "Confidence: N/100", "confidence: N%",
     "confidence score: N", "N/100 confidence"}

Scores == {0, 73, 100, 150}

WordCounts == {50, 250, 600}

Mentions == [form : ScoreForms, score : Scores]

ResultTexts ==
    [mentions : UNION { [1..n -> Mentions] : n \in 0..MaxMentions },
     hasCodeBlocks : BOOLEAN, hasBulletPoints : BOOLEAN, wordCount : WordCounts]

\* The five regular expressions, by the forms each one matches
ConfidencePatterns ==
    << {"**Confidence: N/100**"},
       {"**Confidence: N/100**", "Confidence: N/100"},
       {"confidence: N%"},
       {"confidence score: N"},
       {"N/100 confidence"} >>

\* result.match(pattern): the places of the text the pattern matches
MatchesOf(result, k) ==
    { i \in 1..Len(result.mentions) : result.mentions[i].form \in ConfidencePatterns[k] }

\* parseInt(match[1]) of the leftmost match
Captured(result, k) ==
    result.mentions[CHOOSE i \in MatchesOf(result, k) :
                       \A j \in MatchesOf(result, k) : i <= j].score

\* if (match) { ... if (confidence >= 0 && confidence <= 100) return confidence }
Accepted(result, k) ==
    MatchesOf(result, k) # {} /\ Captured(result, k) >= 0 /\ Captured(result, k) <= 100

defaultConfidence(result) ==
    Min(60 + (IF result.hasCodeBlocks THEN 10 ELSE 0)
           + (IF result.hasBulletPoints THEN 5 ELSE 0)
           + (IF result.wordCount > 200 THEN 10 ELSE 0)
           + (IF result.wordCount > 500 THEN 5 ELSE 0), 85)

extractConfidence(result) ==
    LET accepting == { k \in 1..Len(ConfidencePatterns) : Accepted(result, k) }
    IN  IF accepting = {}
        THEN defaultConfidence(result)
        ELSE Captured(result, CHOOSE k \in accepting : \A l \in accepting : k <= l)

\* One call of extractConfidence returns
CallExtractConfidence ==
    /\ ~fnResult.done
    /\ fnResult' = Returned(extractConfidence(fnArg))
    /\ UNCHANGED <<agentVars, rlVars, racers, routerReq, served, fnArg>>

----------------------------------------------------------------------------
(* Specifications *)

NextAgent ==
    \/ LoadFails
    \/ \E c \in Conns : WebSocketUpgrade(c)
    \/ \E c \in Conns : SocketClose(c)
    \/ \E c \in Conns : \E m \in WsMessages : WsMessage(c, m)
    \/ \E c \in Conns : \E resp \in AiResponses : \E sendThrows \in BOOLEAN :
          AiReturnWs(c, resp, sendThrows)
    \/ \E req \in HttpRequests : HttpRequest(req)
    \/ \E h \in Callers : PutHistory(h)
    \/ \E h \in Callers : Respond(h)

\* The agent of part_002 with the socket handler; the rate limiter stands still
Init ==
    /\ agentRev = "part_002"
    /\ InitAgent
    /\ InitRateLimit
    /\ InitEdge
    /\ InitFn
    /\ config = [maxRequests |-> 3, windowSizeSeconds |-> 1]

Next ==
    \/ NextAgent
    \/ LoadAll
    \/ \E resp \in AiResponses : AiReturnHttp(resp)

Spec == Init /\ [][Next]_vars

\* The agent of src/src/agent.ts with the socket handler
InitAgentTs ==
    /\ agentRev = "agent.ts"
    /\ InitAgent
    /\ InitRateLimit
    /\ InitEdge
    /\ InitFn
    /\ config = [maxRequests |-> 3, windowSizeSeconds |-> 1]

NextAgentTs ==
    \/ NextAgent
    \/ LoadReviews
    \/ LoadHistory

SpecAgentTs == InitAgentTs /\ [][NextAgentTs]_vars

\* The rate limiter; the agent stands still
InitRL ==
    /\ agentRev = "part_002"
    /\ InitAgent
    /\ storage = EmptyState
    /\ InitRateLimit
    /\ InitEdge
    /\ InitFn
    /\ config \in Configs

NextRL ==
    \/ Tick
    \/ \E fail \in {"none", "get", "put"} : checkLimit(fail)

SpecRL == InitRL /\ [][NextRL]_vars

\* All the operations of the rate limiter on one key, one call after the
\* other, the store answering every time
NextRLOps ==
    \/ Tick
    \/ checkLimit("none")
    \/ \E tokens \in 1..MaxTokens : consumeTokens(tokens, "none")
    \/ getStatus("none")
    \/ reset("none")

SpecRLOps == InitRL /\ [][NextRLOps]_vars

\* Concurrent checkLimit calls in one window; the clock stands still
NextRace ==
    \/ \E p \in Racers : RaceGet(p)
    \/ \E p \in Racers : RacePut(p)

SpecRace == InitRL /\ [][NextRace]_vars

\* The router; the agent behind it and the rate limiter stand still
NextRouter ==
    \/ \E method \in Methods : \E pathname \in Paths : RouterFetch(method, pathname)
    \/ \E outcome \in checkRateLimitOutcomes : CheckRateLimitReturns(outcome)
    \/ \E outcome \in HandlerOutcomes : RouteRequest(outcome)

SpecRouter == InitRL /\ [][NextRouter]_vars

\* One socket on the agent of part_002, its messages handled one at a time,
\* from empty durable state
InitSocket ==
    /\ agentRev = "part_002"
    /\ InitAgent
    /\ storage = EmptyState
    /\ InitRateLimit
    /\ InitEdge
    /\ InitFn
    /\ config = [maxRequests |-> 3, windowSizeSeconds |-> 1]

NextSocket ==
    \/ LoadAll
    \/ WebSocketUpgrade("c1")
    \/ SocketClose("c1")
    \/ \E m \in SocketMessages : WsMessage("c1", m)
    \/ \E resp \in SocketAiResponses : \E sendThrows \in BOOLEAN :
          AiReturnWs("c1", resp, sendThrows)
    \/ PutHistory("c1")
    \/ Respond("c1")

SpecSocket == InitSocket /\ [][NextSocket]_vars

\* Everything but the function called stands still
InitStill ==
    /\ agentRev = "part_002"
    /\ InitAgent
    /\ storage = EmptyState
    /\ InitRateLimit
    /\ InitEdge
    /\ config = [maxRequests |-> 3, windowSizeSeconds |-> 1]

\* extractConfidence called on a model output
InitConfidence ==
    /\ InitStill
    /\ fnArg \in ResultTexts
    /\ fnResult = NotCalled

NextConfidence == CallExtractConfidence

SpecConfidence == InitConfidence /\ [][NextConfidence]_vars

\* validateLanguage called on a code and a claimed language
InitValidate ==
    /\ InitStill
    /\ fnArg \in [code : Codes, providedLanguage : ClaimedLanguages]
    /\ fnResult = NotCalled

NextValidate == CallValidateLanguage

SpecValidate == InitValidate /\ [][NextValidate]_vars

----------------------------------------------------------------------------
(* Properties *)

\* The session state a caller's handler works on
HandlerState(h) == IF h = Http THEN thisState ELSE wsState

\* The invocation of h handles a review submission
IsSubmission(h) == task[h].msg.type \in {"submit_code", "POST /api/review"}

\* The language the validation of h's submission is given
ValidatedLanguage(h) ==
    IF h = Http THEN Default(task[h].msg.language, "javascript")
                ELSE OrElse(task[h].msg.language, "javascript")

\* The last thing h's invocation sent back is an error: an error frame on a
\* socket, the given status over HTTP
EndsWithError(h, status) ==
    /\ frames[h] # << >>
    /\ IF h = Http THEN frames[h][Len(frames[h])].status = status
                   ELSE frames[h][Len(frames[h])].type = "error"

\* C1: when the model call of a review fails (it throws, answers in no known
\* shape or with blank text), the session's history and reviews are what they
\* were before the submission was handled.
C1_FailedReviewLeavesStateUntouched ==
    \A h \in Callers :
        task[h].outcome = "model_failed" => HandlerState(h) = task[h].pre

\* C2: a submission whose language validation fails is answered with the
\* rejection (an error frame on a socket, status 400 over HTTP) and the model
\* is never invoked for it.
C2_InvalidLanguageNeverReachesModel ==
    \A h \in Callers :
        ( /\ IsSubmission(h)
          /\ task[h].msg.code # Undefined
          /\ ~validateLanguage(task[h].msg.code, ValidatedLanguage(h)).isValid )
        => /\ ~task[h].invoked
           /\ task[h].outcome = "rejected"
           /\ EndsWithError(h, 400)

\* C2 witness: a socket submission of Python code labelled javascript has been
\* rejected
C2_MismatchRejected ==
    \E c \in Conns :
        /\ task[c].msg.type = "submit_code"
        /\ task[c].msg.code = Sample("py_self")
        /\ task[c].msg.language = "javascript"
        /\ task[c].outcome = "rejected"

\* C3: a submission whose code is empty or missing is answered with a client
\* error (an error frame, status 400), the model is never invoked for it, and
\* the number of reviews stays what it was.
C3_EmptyCodeIsRefused ==
    \A h \in Callers :
        (IsSubmission(h) /\ ~Truthy(task[h].msg.code))
        => /\ ~task[h].invoked
           /\ EndsWithError(h, 400)
           /\ Len(HandlerState(h).reviews) = Len(task[h].pre.reviews)

\* C4: once a socket message has been handled and saveState has run, the
\* durable reviews and history equal the lists the socket handler works on.
C4_DurableEqualsSocketState ==
    \A c \in Conns :
        (task[c].pc = "respond" /\ task[c].outcome # "send_failed")
        => storage.reviews = wsState.reviews /\ storage.history = wsState.history

\* C5: every transport sees one state: a review announced in a done frame is in
\* every later list_reviews reply and GET /reviews reply, and is counted by
\* every later GET /status.
C5_AnnouncedReviewsAreListed ==
    \A h \in Callers :
        (task[h].pc = "respond" /\ task[h].outcome = "replied")
        => LET f == frames[h][1]
               listed == { f.reviews[i].id : i \in 1..Len(f.reviews) }
           IN  /\ task[h].msg.type \in {"list_reviews", "GET /reviews"}
                    => announced \subseteq listed
               /\ task[h].msg.type = "GET /status"
                    => f.reviewsCount >= Cardinality(announced)

\* C6: no request and no socket message is handled before the hydration the
\* constructor started has finished.
C6_NothingServedBeforeHydration ==
    \A h \in Callers :
        task[h].pc # "idle" => loadPc \in {"done", "failed"}

\* C7: while the model call of one review is pending no other message or
\* request of the session is handled, so every assistant turn of the history
\* directly follows a user turn.
C7_ReviewsDoNotInterleave ==
    /\ \A h \in Callers : \A g \in Callers \ {h} :
           task[h].pc = "ai" => task[g].pc = "idle"
    /\ \A i \in 1..Len(wsState.history) :
           wsState.history[i].role = "assistant"
           => i > 1 /\ wsState.history[i - 1].role = "user"

\* C8: when the socket closed while its review was in progress and the model
\* answered with a text, the review is appended and persisted all the same.
C8_ClosedSocketReviewIsPersisted ==
    \A c \in Conns :
        (conn[c] = "closed" /\ task[c].pc = "respond" /\ task[c].modelText)
        => /\ task[c].outcome = "done"
           /\ \E i \in 1..Len(storage.reviews) : storage.reviews[i].id = task[c].reviewId

\* The calls since the window was opened met no store error
NoStoreError == \A i \in 1..Len(calls) : ~calls[i].error

\* C9 as stated: in a run of calls inside one window, with the store never
\* failing, exactly the first maxRequests calls are allowed and every later
\* call is denied with retryAfter > 0.
C9_DeniedWithPositiveRetryAfter ==
    NoStoreError =>
        \A i \in 1..Len(calls) :
            /\ calls[i].allowed <=> i <= config.maxRequests
            /\ ~calls[i].allowed => calls[i].retryAfter > 0

\* C9 amended: exactly the first maxRequests calls are allowed; every later
\* call is denied with retryAfter the seconds left to windowEnd rounded up,
\* which is positive before windowEnd and 0 for a call made at windowEnd.
C9_FirstNAllowedRestDenied ==
    NoStoreError =>
        \A i \in 1..Len(calls) :
            LET windowEnd == calls[1].at + config.windowSizeSeconds * 1000 IN
            /\ calls[i].allowed <=> i <= config.maxRequests
            /\ ~calls[i].allowed =>
                 /\ calls[i].at <= windowEnd
                 /\ calls[i].retryAfter >= 0
                 /\ calls[i].retryAfter * 1000 >= windowEnd - calls[i].at
                 /\ calls[i].retryAfter * 1000 < windowEnd - calls[i].at + 1000
                 /\ calls[i].retryAfter > 0 <=> calls[i].at < windowEnd

\* C9 witness: with maxRequests calls allowed, one more call made at the very
\* instant windowEnd has been denied with retryAfter = 0
C9_DeniedAtWindowEnd ==
    /\ NoStoreError
    /\ Len(calls) = config.maxRequests + 1
    /\ ~calls[Len(calls)].allowed
    /\ calls[Len(calls)].at = calls[1].at + config.windowSizeSeconds * 1000
    /\ calls[Len(calls)].retryAfter = 0

\* The last call found no entry or one whose window had elapsed
LastCallFoundExpired ==
    /\ calls # << >>
    /\ LET c == calls[Len(calls)] IN ~c.found.present \/ c.at > c.found.windowEnd

\* The entry a call made at instant t opens
FreshEntry(t) ==
    [present |-> TRUE, count |-> 1, windowStart |-> t,
     windowEnd |-> t + config.windowSizeSeconds * 1000]

\* C10 as stated: a call that finds no entry or an expired one replaces it by
\* a fresh entry (count 1, windowStart now, windowEnd now + window size) and
\* allows the request.
C10_ExpiredEntryIsReplaced ==
    LastCallFoundExpired =>
        /\ calls[Len(calls)].allowed
        /\ kv = FreshEntry(calls[Len(calls)].at)

\* C10 amended: a call that finds no entry or an expired one allows the
\* request; if the store operations succeed it replaces the entry by a fresh
\* one, if one of them fails it leaves the store as it found it.  Either way
\* the expired entry is not incremented.
C10_ExpiredEntryReplacedOrKept ==
    LastCallFoundExpired =>
        LET c == calls[Len(calls)] IN
        /\ c.allowed
        /\ kv = IF c.error THEN c.found ELSE FreshEntry(c.at)
        /\ ~(kv.windowEnd = c.found.windowEnd /\ kv.count > c.found.count)

\* C10 witness: an entry that had reached the limit expired, and the next call
\* has replaced it and was allowed
C10_ExhaustedWindowReplaced ==
    /\ LastCallFoundExpired
    /\ LET c == calls[Len(calls)] IN
         /\ c.found.present
         /\ c.found.count >= config.maxRequests
         /\ ~c.error
         /\ c.allowed
         /\ kv = FreshEntry(c.at)

\* C11: a checkLimit call during which the store read or write failed returned
\* allowed, with the policy's whole maxRequests as remaining and no retryAfter:
\* a store error yields a result, and never a denial.
C11_StoreErrorFailsOpen ==
    /\ ncalls > 0 => calls # << >>
    /\ \A i \in 1..Len(calls) :
           calls[i].error =>
               /\ calls[i].allowed
               /\ calls[i].remaining = config.maxRequests
               /\ calls[i].retryAfter = -1

\* C11 witness: the store failed on a call that found the window's limit
\* reached, and the call was allowed
C11_FailedOpenAtLimit ==
    /\ calls # << >>
    /\ LET c == calls[Len(calls)] IN
         /\ c.error
         /\ c.found.present
         /\ c.at <= c.found.windowEnd
         /\ c.found.count >= config.maxRequests
         /\ c.allowed

\* C12: when concurrent checkLimit calls on one key have all finished, the
\* stored count is at least the number of calls that were allowed in the window.
C12_EveryAllowedCallIsCounted ==
    (\A p \in Racers : racers[p].pc = "done")
    => kv.count >= Cardinality({ p \in Racers : racers[p].allowed })

C14_RouterNeverThrows ==
    /\ routerReq.pc # "escaped"
    /\ routerReq.checkResult = "throws"
       => routerReq.pc = "done" /\ routerReq.response.status = 500

\* C15: every response of the router that is not a WebSocket upgrade carries
\* all the CORS and security headers.
C15_EveryResponseHasCorsHeaders ==
    (routerReq.pc = "done" /\ ~routerReq.response.webSocket)
    => getCorsHeaders \subseteq routerReq.response.headers

\* The frames of c's invocation that end a submission
TerminalFrames(c) ==
    { i \in 1..Len(frames[c]) : frames[c][i].type \in {"done", "error"} }

\* C16: when the handling of a submit_code message is over, the server has sent
\* exactly one terminal frame for it, done or error, and that frame is the last
\* one: no stream frame follows it.
C16_OneTerminalFrameLast ==
    \A c \in Conns :
        (task[c].msg.type = "submit_code" /\ task[c].pc \in {"put_history", "respond"})
        => TerminalFrames(c) = {Len(frames[c])} /\ frames[c] # << >>

\* C17: a ping, list_reviews or get_history frame, a frame of another type and
\* a frame that is no JSON are each answered by exactly one frame (pong,
\* reviews, history, error), leave history and reviews as they were, and leave
\* the connection open.
C17_QueriesReplyOnceWithoutEffect ==
    \A c \in Conns :
        task[c].msg.type \in {"ping", "list_reviews", "get_history", "other", "not json"}
        => /\ Len(frames[c]) = 1
           /\ frames[c][1].type =
                (CASE task[c].msg.type = "ping"         -> "pong"
                   [] task[c].msg.type = "list_reviews" -> "reviews"
                   [] task[c].msg.type = "get_history"  -> "history"
                   [] OTHER                             -> "error")
           /\ frames[c][1].reviews =
                (IF task[c].msg.type = "list_reviews" THEN task[c].pre.reviews ELSE << >>)
           /\ frames[c][1].history =
                (IF task[c].msg.type = "get_history" THEN task[c].pre.history ELSE << >>)
           /\ wsState = task[c].pre
           /\ conn[c] = "open"

\* C17 witness: a frame that is no JSON has been answered with one error frame
\* while the session holds a review
C17_BadJsonAnswered ==
    \E c \in Conns :
        /\ task[c].msg.type = "not json"
        /\ frames[c] = << Frame("error") >>
        /\ wsState.reviews # << >>

\* Text a is the first characters of text b
IsTextPrefix(a, b) ==
    \/ a = << >>
    \/ /\ Len(a) <= Len(b)
       /\ \A i \in 1..(Len(a) - 1) : a[i] = b[i]
       /\ a[Len(a)].id = b[Len(a)].id
       /\ a[Len(a)].len <= b[Len(a)].len

\* Every review held in memory or in durable storage
AllReviews ==
    UNION { SeqToSet(heap[o].reviews) : o \in 0..1 } \cup SeqToSet(storage.reviews)

\* C18: no stored review has more than 2000 characters of code, and the review
\* a successful run stored holds the first min(length, 2000) characters of the
\* code submitted.
C18_ReviewCodeIsFirst2000 ==
    /\ \A r \in AllReviews : TextLen(r.code) <= 2000
    /\ \A h \in Callers :
           task[h].outcome = "done" =>
               \E i \in 1..Len(HandlerState(h).reviews) :
                   LET r == HandlerState(h).reviews[i] IN
                   /\ r.id = task[h].reviewId
                   /\ IsTextPrefix(r.code, task[h].msg.code)
                   /\ TextLen(r.code) = Min(TextLen(task[h].msg.code), 2000)

\* C18 witness: a submission of 5000 characters has been stored with exactly
\* 2000 characters of code
C18_LongCodeStoredAs2000 ==
    \E h \in Callers :
        /\ task[h].outcome = "done"
        /\ TextLen(task[h].msg.code) = 5000
        /\ \E i \in 1..Len(HandlerState(h).reviews) :
               /\ HandlerState(h).reviews[i].id = task[h].reviewId
               /\ TextLen(HandlerState(h).reviews[i].code) = 2000

\* C19: every entry of the history, user turn or assistant turn, has a content
\* of at most 500 characters.
C19_HistoryContentAtMost500 ==
    \A o \in 0..1 : \A i \in 1..Len(heap[o].history) :
        TextLen(heap[o].history[i].content) <= 500

\* List a is the beginning of list b
IsPrefix(a, b) == Len(a) <= Len(b) /\ SubSeq(b, 1, Len(a)) = a

\* A successful pipeline run ends in this step
RunSucceeds ==
    \E h \in Callers : task[h].outcome # "done" /\ task'[h].outcome = "done"

\* C20: once hydrated, reviews and history only grow at the end: every step
\* keeps the entries they hold, in place and unchanged, and the reviews grow by
\* exactly one entry in the step that ends a successful run and in no other step.
C20_AppendOnly ==
    [][ (loadPc = "done" /\ loadPc' = "done") =>
          /\ \A o \in 0..1 :
                 /\ IsPrefix(heap[o].reviews, heap'[o].reviews)
                 /\ IsPrefix(heap[o].history, heap'[o].history)
          /\ \A h \in Callers :
                 (task[h].outcome # "done" /\ task'[h].outcome = "done")
                 => Len(HandlerState(h)'.reviews) = Len(HandlerState(h).reviews) + 1
          /\ ~RunSucceeds => \A o \in 0..1 : heap'[o].reviews = heap[o].reviews
      ]_vars

\* C20 witness: the review loaded at hydration is still first, and a
\* successful run has appended one after it
C20_AppendedAfterHydrated ==
    /\ loadPc = "done"
    /\ Len(thisState.reviews) = 2
    /\ thisState.reviews[1] = PriorReview
    /\ \E h \in Callers : task[h].outcome = "done"

\* C21: every stored review has a category of the enum; a submission whose
\* category is missing or outside the enum is reviewed with the quick template
\* and stored with category quick.
C21_StoredCategoryInEnum ==
    /\ \A r \in AllReviews : r.category \in CATEGORIES
    /\ \A h \in Callers :
           (task[h].invoked /\ task[h].msg.category \notin CATEGORIES)
           => task[h].template = "quick"

\* The review h's successful run stored
StoredReview(h) ==
    LET st == HandlerState(h)
    IN  st.reviews[CHOOSE i \in 1..Len(st.reviews) : st.reviews[i].id = task[h].reviewId]

\* Text t carries a language note of performReview
HasLanguageNote(t) ==
    \E i \in 1..Len(t) : t[i].id \in {"**Language Detection Note:**", "**Language Detection:**"}

\* C22: when at least one language is detected and the claimed language is
\* among the detected ones, the review proceeds and its result is the model's
\* output with no language note in front of it, whether one language or
\* several are detected.
C22_NoNoteWhenLanguageMatches ==
    \A h \in Callers :
        LET detected == detectLanguage(task[h].msg.code) IN
        ( /\ task[h].outcome = "done"
          /\ detected # << >>
          /\ ValidatedLanguage(h) \in SeqToSet(detected) )
        => ~HasLanguageNote(StoredReview(h).result)

\* C23: a submission of the code `def foo(): pass` with claimed language
\* javascript is rejected before any model call, python being named as the
\* detected candidate.
C23_SingleDefRejectedAsPython ==
    \A h \in Callers :
        ( /\ IsSubmission(h)
          /\ task[h].msg.code = Sample("py_def")
          /\ task[h].msg.language = "javascript" )
        => /\ ~task[h].invoked
           /\ task[h].outcome = "rejected"
           /\ "python" \in SeqToSet(validateLanguage(task[h].msg.code, "javascript").detectedLanguages)

\* C24: a pipeline run succeeds, and stores a review, only when the model's
\* response carried a text that is not empty: a response without a text
\* payload and a response whose text is empty make the run fail.
C24_SuccessOnlyWithModelText ==
    \A h \in Callers :
        task[h].outcome = "done" => task[h].modelText

\* The patterns of extractConfidence that match the text
MatchingPatterns == { k \in 1..Len(ConfidencePatterns) : MatchesOf(fnArg, k) # {} }

\* C25: the explicit-score patterns are tried in their fixed order and the
\* first one that matches decides the score, cut into [0,100] (150 yields
\* 100); the value returned is an integer of 0..100; a text whose only score
\* is **Confidence: 73/100** yields 73.
C25_FirstMatchDecidesClamped ==
    fnResult.done =>
        /\ fnResult.value \in 0..100
        /\ MatchingPatterns # {} =>
             LET first == CHOOSE k \in MatchingPatterns : \A l \in MatchingPatterns : k <= l
             IN  fnResult.value = Min(Captured(fnArg, first), 100)
        /\ (Len(fnArg.mentions) = 1 /\ fnArg.mentions[1] = [form |-> "**Confidence: N/100**", score |-> 73])
             => fnResult.value = 73

\* The number of assistant turns of a history
AssistantTurns(history) ==
    Cardinality({ i \in 1..Len(history) : history[i].role = "assistant" })

\* C26: the durable keys 'reviews' and 'history' are written as a unit: in
\* every reachable state they come from one in-memory snapshot.  Every
\* snapshot holds one assistant turn for each of its reviews, so the durable
\* history holds as many assistant turns as there are durable reviews.
C26_DurableKeysFromOneSnapshot ==
    AssistantTurns(storage.history) = Len(storage.reviews)

\* Every in-memory snapshot holds one assistant turn for each review
SnapshotsAreBalanced ==
    \A o \in 0..1 : AssistantTurns(heap[o].history) = Len(heap[o].reviews)

\* The turns of a history with the given role, in order
TurnsOf(history, role) == SelectSeq(history, LAMBDA e : e.role = role)

\* C27: in the state the socket handler works on, with the messages of a socket
\* handled one at a time from empty state, the history holds as many assistant
\* turns as there are reviews and at least as many user turns, and the k-th
\* assistant turn holds the first 500 characters of the k-th review's result.
C27_HistoryMatchesReviews ==
    LET assistant == TurnsOf(wsState.history, "assistant")
        user == TurnsOf(wsState.history, "user")
    IN  /\ Len(assistant) = Len(wsState.reviews)
        /\ Len(user) >= Len(assistant)
        /\ Len(user) + Len(assistant) = Len(wsState.history)
        /\ \A k \in 1..Len(wsState.reviews) :
               /\ k <= Len(assistant)
               /\ IsTextPrefix(assistant[k].content, wsState.reviews[k].result)
               /\ TextLen(assistant[k].content) = Min(TextLen(wsState.reviews[k].result), 500)

\* C27 witness: after a rejected submission and a review whose result has more
\* than 500 characters, the history holds two user turns and one assistant turn
\* of 500 characters
C27_LongResultAfterRejection ==
    /\ Len(wsState.reviews) = 1
    /\ TextLen(wsState.reviews[1].result) > 500
    /\ Len(TurnsOf(wsState.history, "user")) = 2
    /\ Len(TurnsOf(wsState.history, "assistant")) = 1
    /\ TextLen(TurnsOf(wsState.history, "assistant")[1].content) = 500

\* C28: under any sequence of checkLimit, consumeTokens (of at least one
\* token), getStatus and reset calls on one policy, every stored entry has a
\* count from 1 to maxRequests, and a checkLimit or consumeTokens call that
\* denied and every getStatus call left the stored entry as it found it.
C28_CountWithinLimit ==
    /\ kv.present => kv.count >= 1 /\ kv.count <= config.maxRequests
    /\ calls # << >> =>
         LET c == calls[Len(calls)] IN
         (~c.allowed \/ c.op = "getStatus") => kv = c.found

\* C28 witness: a consumeTokens call that would have overfilled a window
\* already holding tokens has been denied, the entry left at its count
C28_OverfillingConsumeDenied ==
    /\ calls # << >>
    /\ LET c == calls[Len(calls)] IN
         /\ c.op = "consumeTokens"
         /\ ~c.allowed
         /\ ~c.error
         /\ c.found.present
         /\ c.at <= c.found.windowEnd
         /\ c.found.count < config.maxRequests
         /\ kv = c.found

\* C29: durable reviews only grow: whatever step is taken, hydration that
\* fails included, every review held in durable storage before the step is
\* held in durable storage after it.
C29_DurableReviewsOnlyGrow ==
    [][ SeqToSet(storage.reviews) \subseteq SeqToSet(storage'.reviews) ]_vars

\* At least two signature patterns of one of the eight languages match the code
SomeDetectorFires(code) ==
    \E i \in 1..Len(LANGUAGES) : Matches(code, LANGUAGES[i]) >= 2

====
